---------------------------- MODULE Spec2Model ----------------------------
(***************************************************************************)
(* A model of spectral_painting (src/spectral_painting/app.js): the        *)
(* Polygon geometry, the Fill and Outline shape transcribers, the audio    *)
(* processors' render state machine and the Director that ties them to     *)
(* the mouse and to the render button.                                     *)
(*                                                                         *)
(* Numbers.  JavaScript numbers are modelled as exact rationals            *)
(* [n |-> numerator, d |-> denominator]; d = 0 stands for the non-finite   *)
(* results of a division by zero (n = 0 is NaN, n = 1 / -1 is +/-Infinity).*)
(* Rounding error of the 64-bit floats is not modelled.                    *)
(*                                                                         *)
(* Units.  The canvas is scaled down: one grid cell is GridSize units      *)
(* wide, the box is partition.horizontal x partition.vertical cells, and   *)
(* the sweep advances one unit per time sample.                            *)
(***************************************************************************)
EXTENDS Integers, Sequences, FiniteSets, TLC

\* ------------------------------------------------------------------ bounds
MaxPoints == 4        \* points of a polygon swept or edited through the Polygon API
MaxAnchors == 2       \* points of a polygon edited with the mouse
MaxPasses == 2        \* render passes of one run
MaxClock == 1         \* readings of the audio clock

\* ----------------------------------------------------------------- numbers
Abs(i) == IF i < 0 THEN -i ELSE i

Sgn(i) == IF i < 0 THEN -1 ELSE IF i > 0 THEN 1 ELSE 0

RECURSIVE GCD(_, _)
GCD(a, b) == IF b = 0 THEN a ELSE GCD(b, a % b)

\* the number n/d: in lowest terms with d > 0, or non-finite when d = 0
Rat(n, d) ==
    IF d = 0 THEN [n |-> Sgn(n), d |-> 0]
    ELSE LET g == GCD(Abs(n), Abs(d))
         IN  [n |-> Sgn(d) * (n \div g), d |-> Abs(d) \div g]

R(i) == [n |-> i, d |-> 1]

isFinite(p) == p.d # 0

IsNaN(p) == p.d = 0 /\ p.n = 0

RNeg(p) == [n |-> -p.n, d |-> p.d]

RAdd(p, q) ==
    IF isFinite(p) /\ isFinite(q) THEN Rat(p.n * q.d + q.n * p.d, p.d * q.d)
    ELSE IF IsNaN(p) \/ IsNaN(q) THEN Rat(0, 0)
    ELSE IF ~isFinite(p) /\ ~isFinite(q)
         THEN (IF p.n = q.n THEN p ELSE Rat(0, 0))
    ELSE IF isFinite(p) THEN q ELSE p

RSub(p, q) == RAdd(p, RNeg(q))

RMul(p, q) ==
    IF isFinite(p) /\ isFinite(q) THEN Rat(p.n * q.n, p.d * q.d)
    ELSE IF IsNaN(p) \/ IsNaN(q) \/ p.n = 0 \/ q.n = 0 THEN Rat(0, 0)
    ELSE Rat(Sgn(p.n) * Sgn(q.n), 0)

\* p / q as JavaScript divides: x/0 is an infinity, 0/0 is NaN
RDiv(p, q) ==
    IF isFinite(p) /\ isFinite(q) THEN Rat(p.n * q.d, p.d * q.n)
    ELSE IF isFinite(p) /\ ~IsNaN(q) THEN R(0)
    ELSE IF isFinite(q) /\ ~IsNaN(p) THEN Rat(p.n * (IF q.n < 0 THEN -1 ELSE 1), 0)
    ELSE Rat(0, 0)

\* comparisons; any comparison with NaN is false
RLe(p, q) ==
    IF IsNaN(p) \/ IsNaN(q) THEN FALSE
    ELSE IF ~isFinite(p) /\ ~isFinite(q) THEN p.n <= q.n
    ELSE IF ~isFinite(p) THEN p.n < 0
    ELSE IF ~isFinite(q) THEN q.n > 0
    ELSE p.n * q.d <= q.n * p.d

RLt(p, q) ==
    IF IsNaN(p) \/ IsNaN(q) THEN FALSE
    ELSE IF ~isFinite(p) /\ ~isFinite(q) THEN p.n < q.n
    ELSE IF ~isFinite(p) THEN p.n < 0
    ELSE IF ~isFinite(q) THEN q.n > 0
    ELSE p.n * q.d < q.n * p.d

RGe(p, q) == RLe(q, p)

RGt(p, q) == RLt(q, p)

RMin(p, q) == IF RLt(q, p) THEN q ELSE p

RMax(p, q) == IF RGt(q, p) THEN q ELSE p

\* --------------------------------------------------------------- settings
\* Grid.size: box.width / partition.horizontal (500 / 48 in the program),
\* here a cell of 2 units so that the middle of a cell is a whole number
GridSize == 2

partition == [horizontal |-> 2, vertical |-> 2]

settings ==
    [frequency_range |-> [low |-> 65, high |-> 20000],
     rate |-> partition.horizontal * GridSize,
     box |-> [x |-> 1, y |-> 1,
              width |-> partition.horizontal * GridSize,
              height |-> partition.vertical * GridSize],
     origin |-> [x |-> 1 + (partition.horizontal * GridSize) \div 2,
                 y |-> 1 + (partition.vertical * GridSize) \div 2],
     anchor_size |-> 1,
     stroke_thickness |-> 0]


Grid_size ==
    [horizontal |-> Rat(settings.box.width, partition.horizontal),
     vertical |-> Rat(settings.box.height, partition.vertical)]

\* ------------------------------------------------------------------ points
\* A Point is kept by its Cartesian position [x, y] (rationals); its polar
\* angle and radius are derived from it and from settings.origin, the origin
\* every Point of the program is built with.
Pt(x, y) == [x |-> R(x), y |-> R(y)]

\* Math.round: the nearest integer, halves rounded up
Math_round(p) == (2 * p.n + p.d) \div (2 * p.d)

\* (x1 - x2)^2 + (y1 - y2)^2, the square of dist(point1, point2)
dist2(point1, point2) ==
    RAdd(RMul(RSub(point1.x, point2.x), RSub(point1.x, point2.x)),
         RMul(RSub(point1.y, point2.y), RSub(point1.y, point2.y)))

\* Point.angle of a point built by Point.from_cartesian:
\* (atan2(y - origin_y, x - origin_x) + 2 pi) % (2 pi), in [0, 2 pi).
\* The model keeps the "diamond angle" in [0, 4), which grows strictly with
\* the polar angle, so that comparing two of them compares the angles.
Point_angle(p) ==
    LET dx == RSub(p.x, R(settings.origin.x))
        dy == RSub(p.y, R(settings.origin.y))
        ax == IF dx.n < 0 THEN RNeg(dx) ELSE dx
        ay == IF dy.n < 0 THEN RNeg(dy) ELSE dy
        s  == RAdd(ax, ay)
    IN  IF dx.n = 0 /\ dy.n = 0 THEN R(0)
        ELSE IF dy.n >= 0 /\ dx.n > 0 THEN RDiv(ay, s)
        ELSE IF dx.n <= 0 /\ dy.n > 0 THEN RAdd(R(1), RDiv(ax, s))
        ELSE IF dy.n <= 0 /\ dx.n < 0 THEN RAdd(R(2), RDiv(ay, s))
        ELSE RAdd(R(3), RDiv(ax, s))

Point_from_cartesian(x, y) == [x |-> x, y |-> y]

\* ----------------------------------------------------------------- polygon
\* check_bounds that lets the index one past the end through
Polygon_check_bounds_past_end(points, index) == ~(index < 0 \/ index > Len(points))

Polygon_check_bounds(points, index) == ~(index < 0 \/ index >= Len(points))

Polygon_line_equation(point1, point2) ==
    LET a == RAdd(RNeg(point1.y), point2.y)
        b == RSub(point1.x, point2.x)
    IN  [a |-> a, b |-> b,
         c |-> RSub(RMul(RNeg(a), point1.x), RMul(b, point1.y))]

\* find_insert_index stopping at the first angle that is larger or equal
RECURSIVE find_insert_index_before_equal(_, _, _)
find_insert_index_before_equal(points, point, index) ==
    IF index >= Len(points) THEN Len(points)
    ELSE IF RLe(Point_angle(point), Point_angle(points[index + 1])) THEN index
    ELSE find_insert_index_before_equal(points, point, index + 1)

\* indices are those of the code (0-based); points[index + 1] is _points[index]
RECURSIVE find_insert_index_from(_, _, _)
find_insert_index_from(points, point, index) ==
    IF index >= Len(points) THEN Len(points)
    ELSE IF RLt(Point_angle(point), Point_angle(points[index + 1])) THEN index
    ELSE find_insert_index_from(points, point, index + 1)

Polygon_find_insert_index(points, point) == find_insert_index_from(points, point, 0)

\* Array.prototype.splice(index, 0, value)
SpliceIn(seq, index, value) ==
    SubSeq(seq, 1, index) \o <<value>> \o SubSeq(seq, index + 1, Len(seq))

\* Array.prototype.splice(index, 1)
SpliceOut(seq, index) ==
    SubSeq(seq, 1, index) \o SubSeq(seq, index + 2, Len(seq))

Polygon_insert(points, point) ==
    SpliceIn(points, Polygon_find_insert_index(points, point), point)

\* delete and replace throw "Index out of bounds" before touching _points
Polygon_delete(points, index) ==
    IF Polygon_check_bounds(points, index)
    THEN [points |-> SpliceOut(points, index), error |-> "none"]
    ELSE [points |-> points, error |-> "Index out of bounds"]

Polygon_replace(points, index, value) ==
    IF Polygon_check_bounds(points, index)
    THEN [points |-> [points EXCEPT ![index + 1] = value], error |-> "none"]
    ELSE [points |-> points, error |-> "Index out of bounds"]

\* the sign of Math.atan2(-a, b): positive exactly when -a > 0, because a
\* zero difference of two numbers is +0, so -a is -0 and atan2 gives -0 or -pi
segment_angle_sign(line_equation) ==
    IF line_equation.a.n < 0 THEN 1
    ELSE IF line_equation.a.n > 0 THEN -1
    ELSE IF line_equation.b.n < 0 THEN -1 ELSE 0

\* where the query line meets the line through an edge (Cramer's rule)
intersection_point(line, line_equation) ==
    [x |-> RDiv(RSub(RMul(line.b, line_equation.c), RMul(line_equation.b, line.c)),
                RSub(RMul(line.a, line_equation.b), RMul(line_equation.a, line.b))),
     y |-> RDiv(RSub(RMul(line.a, line_equation.c), RMul(line_equation.a, line.c)),
                RSub(RMul(line_equation.a, line.b), RMul(line.a, line_equation.b)))]

\* edge_accept with the ends of the x-span left out
edge_accept_open(intersection, line_equation, left_bound, right_bound) ==
    IF /\ RGt(intersection.x, left_bound)
       /\ RLt(intersection.x, right_bound)
       /\ isFinite(intersection.x)
       /\ isFinite(intersection.y)
    THEN << [point |-> intersection,
             x_axis_angle |-> segment_angle_sign(line_equation)] >>
    ELSE << >>

\* the test that keeps an intersection: within the x-span of the edge, finite
edge_accept(intersection, line_equation, left_bound, right_bound) ==
    IF /\ RGe(intersection.x, left_bound)
       /\ RLe(intersection.x, right_bound)
       /\ isFinite(intersection.x)
       /\ isFinite(intersection.y)
    THEN << [point |-> intersection,
             x_axis_angle |-> segment_angle_sign(line_equation)] >>
    ELSE << >>

edge_between(point1, point2, line, line_equation) ==
    edge_accept(intersection_point(line, line_equation), line_equation,
                RMin(point1.x, point2.x), RMax(point1.x, point2.x))

\* the intersection of edge index (0-based) with the query line, as a
\* sequence of zero or one weighted intersections
edge_intersection(points, line, index) ==
    edge_between(points[index + 1], points[((index + 1) % Len(points)) + 1], line,
                 Polygon_line_equation(points[index + 1],
                                       points[((index + 1) % Len(points)) + 1]))

RECURSIVE weighted_intersections_from(_, _, _)
weighted_intersections_from(points, line, index) ==
    IF index >= Len(points) THEN << >>
    ELSE edge_intersection(points, line, index)
         \o weighted_intersections_from(points, line, index + 1)

Polygon_find_weighted_intersections(points, line) ==
    weighted_intersections_from(points, line, 0)

\* weighted_intersections.map(value => value.point)
intersection_points(weighted_intersections) ==
    [index \in 1..Len(weighted_intersections) |-> weighted_intersections[index].point]

Polygon_find_intersections(points, line) ==
    intersection_points(Polygon_find_weighted_intersections(points, line))

\* evenodd_rule counting every intersection of the line, not those below
evenodd_rule_whole_line(intersections, point) ==
    Len(intersections) % 2 # 0

\* the "evenodd" branch: the intersections below the point are counted
evenodd_rule(intersections, point) ==
    Cardinality({index \in 1..Len(intersections) :
                     RLt(intersections[index].y, point.y)}) % 2 # 0

\* the sum of +1 / -1 over the given intersections
winding_sum(weighted_intersections, hits) ==
    Cardinality({index \in hits : weighted_intersections[index].x_axis_angle > 0})
    - Cardinality({index \in hits : ~(weighted_intersections[index].x_axis_angle > 0)})

\* the "nonzero" branch: the intersections at or right of the point are summed
nonzero_rule(weighted_intersections, point) ==
    winding_sum(weighted_intersections,
                {index \in 1..Len(weighted_intersections) :
                     RGe(weighted_intersections[index].point.x, point.x)}) # 0

\* is_inside with the "nonzero" branch as the default of the switch
Polygon_is_inside_defaulting(points, point, rule) ==
    IF rule = "evenodd" THEN
        [value |-> evenodd_rule(
                       Polygon_find_intersections(points, [a |-> R(1), b |-> R(0), c |-> RNeg(point.x)]),
                       point),
         error |-> "none"]
    ELSE
        [value |-> nonzero_rule(
                       Polygon_find_weighted_intersections(points, [a |-> R(0), b |-> R(1), c |-> RNeg(point.y)]),
                       point),
         error |-> "none"]

\* is_inside returns a boolean, or throws for an unsupported rule
Polygon_is_inside(points, point, rule) ==
    IF rule = "evenodd" THEN
        [value |-> evenodd_rule(
                       Polygon_find_intersections(points, [a |-> R(1), b |-> R(0), c |-> RNeg(point.x)]),
                       point),
         error |-> "none"]
    ELSE IF rule = "nonzero" THEN
        [value |-> nonzero_rule(
                       Polygon_find_weighted_intersections(points, [a |-> R(0), b |-> R(1), c |-> RNeg(point.y)]),
                       point),
         error |-> "none"]
    ELSE [value |-> FALSE, error |-> "Not implemented"]

\* ------------------------------------------------------- frequency mapping
\* A value handed to the audio graph is the number k * high^hi * low^lo, kept
\* as [k, hi, lo] (rationals; high and low are settings.frequency_range).  A
\* plain number v is [k |-> v, hi |-> 0, lo |-> 0].  As log(low)/log(high) is
\* irrational, two such values are equal only when their three parts are.
Num(i) == [k |-> R(i), hi |-> R(0), lo |-> R(0)]

Director_get_caret_position(time) ==
    RAdd(RMul(RDiv(time, R(settings.rate)), R(settings.box.width)), R(settings.box.x))

\* high ^ ((1 - ratio) * (1 - bias) + bias) with bias = log(low) / log(high),
\* that is high^(1 - ratio) * (high^bias)^ratio = high^(1 - ratio) * low^ratio
Director_normalize_linear(value) ==
    LET ratio == RDiv(RSub(value, R(settings.box.y)), R(settings.box.height))
    IN  [k |-> R(1), hi |-> RSub(R(1), ratio), lo |-> ratio]

\* normalize_exponential with the ratio taken from the top of the range down
Director_normalize_exponential_unturned(value) ==
    [k |-> value.k, one |-> value.hi, bias |-> RSub(value.lo, R(1))]

\* normalize_exponential of the number k * high^hi * low^lo.  With
\* bias = log(low) / log(high), power is hi + lo * bias + log(k) / log(high),
\* and ratio = -(power - bias) / (1 - bias) + 1 is
\* ((1 - hi) - lo * bias - log(k) / log(high)) / (1 - bias).  The result is kept
\* as the numerator [one, bias, k] of that quotient: one + bias * log(low) /
\* log(high) - log(k) / log(high).
Director_normalize_exponential(value) ==
    [k |-> value.k, one |-> RSub(R(1), value.hi), bias |-> RNeg(value.lo)]

\* whether a result of normalize_exponential is the number ratio whatever the
\* frequency range: its numerator is ratio * (1 - bias)
IsRatio(result, ratio) ==
    /\ result.k = R(1)
    /\ result.one = ratio
    /\ result.bias = RNeg(ratio)

\* ---------------------------------------------------------- the transcribers
\* intersections.sort(...): descending y; the sort is stable
RECURSIVE sort_insert(_, _)
sort_insert(sorted, item) ==
    IF sorted = << >> THEN << item >>
    ELSE IF RGt(item.y, sorted[Len(sorted)].y)
         THEN Append(sort_insert(SubSeq(sorted, 1, Len(sorted) - 1), item), sorted[Len(sorted)])
         ELSE Append(sorted, item)

RECURSIVE sort_descending_y(_)
sort_descending_y(items) ==
    IF items = << >> THEN << >>
    ELSE sort_insert(sort_descending_y(SubSeq(items, 1, Len(items) - 1)), items[Len(items)])

\* the intersections of the sweep line at time_stamp, sorted
sweep_intersections(points, time_stamp) ==
    LET caret_position == Director_get_caret_position(time_stamp)
    IN  sort_descending_y(
            Polygon_find_intersections(points, [a |-> R(1), b |-> R(0), c |-> RNeg(caret_position)]))

Repeat(value, count) == [index \in 1..count |-> value]

\* The locals of FillAudioProcessor.transcribe_user_shape and the length of
\* this._filters, before the first time sample.
Fill_start(filters) ==
    [lower_frequencies |-> << >>, upper_frequencies |-> << >>, activated |-> << >>,
     last_nonzero_lower |-> << >>, last_nonzero_upper |-> << >>,
     counter |-> 0, filters |-> filters]

\* Fill_band with the compensation computed without regard to the bank
Fill_band_regrown(st, filter_index, lower_point, upper_point) ==
    LET compensation == filter_index + 1
        grown == [st EXCEPT
            !.lower_frequencies = @ \o Repeat(Repeat(Num(-1), st.counter), compensation),
            !.upper_frequencies = @ \o Repeat(Repeat(Num(-1), st.counter), compensation),
            !.activated = @ \o Repeat(Repeat(FALSE, st.counter), compensation),
            !.last_nonzero_lower = @ \o Repeat(Num(0), compensation),
            !.last_nonzero_upper = @ \o Repeat(Num(0), compensation),
            !.filters = @ + compensation]
    IN  [grown EXCEPT
            !.last_nonzero_lower[filter_index + 1] = lower_point,
            !.last_nonzero_upper[filter_index + 1] = upper_point,
            !.lower_frequencies[filter_index + 1] = Append(@, lower_point),
            !.upper_frequencies[filter_index + 1] = Append(@, upper_point),
            !.activated[filter_index + 1] = Append(@, TRUE)]

\* the body of "if (shape.is_inside(mid_point, 'nonzero'))" for one pair
Fill_band(st, filter_index, lower_point, upper_point) ==
    LET compensation == IF filter_index >= st.filters THEN filter_index - st.filters + 1 ELSE 0
        grown == [st EXCEPT
            !.lower_frequencies = @ \o Repeat(Repeat(Num(-1), st.counter), compensation),
            !.upper_frequencies = @ \o Repeat(Repeat(Num(-1), st.counter), compensation),
            !.activated = @ \o Repeat(Repeat(FALSE, st.counter), compensation),
            !.last_nonzero_lower = @ \o Repeat(Num(0), compensation),
            !.last_nonzero_upper = @ \o Repeat(Num(0), compensation),
            !.filters = @ + compensation]
    IN  [grown EXCEPT
            !.last_nonzero_lower[filter_index + 1] = lower_point,
            !.last_nonzero_upper[filter_index + 1] = upper_point,
            !.lower_frequencies[filter_index + 1] = Append(@, lower_point),
            !.upper_frequencies[filter_index + 1] = Append(@, upper_point),
            !.activated[filter_index + 1] = Append(@, TRUE)]

\* Fill_pair_inside testing the lower point of the pair, not the midpoint
Fill_pair_inside_at_lower(points, intersections, index) ==
    Polygon_is_inside(points,
                      Point_from_cartesian(intersections[index + 1].x, intersections[index + 1].y),
                      "nonzero").value

\* whether the pair (index, index + 1) of the sorted intersections is a band
Fill_pair_inside(points, intersections, index) ==
    LET mid_point == Point_from_cartesian(
            RDiv(RAdd(intersections[index + 1].x, intersections[index + 2].x), R(2)),
            RDiv(RAdd(intersections[index + 1].y, intersections[index + 2].y), R(2)))
    IN  Polygon_is_inside(points, mid_point, "nonzero").value

\* Fill_pairs walking the pairs (0, 1), (2, 3), ... in place of (0, 1), (1, 2), ...
RECURSIVE Fill_pairs_disjoint(_, _, _, _, _)
Fill_pairs_disjoint(points, intersections, st, index, filter_index) ==
    IF index >= Len(intersections) - 1 THEN [st |-> st, filter_index |-> filter_index]
    ELSE IF Fill_pair_inside(points, intersections, index)
         THEN Fill_pairs_disjoint(points, intersections,
                                  Fill_band(st, filter_index,
                                            Director_normalize_linear(intersections[index + 1].y),
                                            Director_normalize_linear(intersections[index + 2].y)),
                                  index + 2, filter_index + 1)
         ELSE Fill_pairs_disjoint(points, intersections, st, index + 2, filter_index)

\* the loop over the pairs of one time sample, from pair index on; the result
\* is the locals and filter_index after the loop
RECURSIVE Fill_pairs(_, _, _, _, _)
Fill_pairs(points, intersections, st, index, filter_index) ==
    IF index >= Len(intersections) - 1 THEN [st |-> st, filter_index |-> filter_index]
    ELSE LET upper_point == Director_normalize_linear(intersections[index + 2].y)
             lower_point == Director_normalize_linear(intersections[index + 1].y)
         IN  IF Fill_pair_inside(points, intersections, index)
             THEN Fill_pairs(points, intersections,
                             Fill_band(st, filter_index, lower_point, upper_point),
                             index + 1, filter_index + 1)
             ELSE Fill_pairs(points, intersections, st, index + 1, filter_index)

\* Fill_rest without the loop: the voices left inactive get no entry
Fill_rest_skipped(st, filter_index) == st

\* the "while (filter_index < this._filters.length)" loop: inactive entries
Fill_rest(st, filter_index) ==
    [st EXCEPT
        !.lower_frequencies = [v \in 1..Len(@) |-> IF v > filter_index THEN Append(@[v], Num(-1)) ELSE @[v]],
        !.upper_frequencies = [v \in 1..Len(@) |-> IF v > filter_index THEN Append(@[v], Num(-1)) ELSE @[v]],
        !.activated = [v \in 1..Len(@) |-> IF v > filter_index THEN Append(@[v], FALSE) ELSE @[v]]]

\* the end of one time sample: the inactive entries, then counter++
Fill_close(paired) ==
    [Fill_rest(paired.st, paired.filter_index) EXCEPT !.counter = @ + 1]

\* one iteration of the loop over the time samples
Fill_sample(points, st, time_stamp) ==
    Fill_close(Fill_pairs(points, sweep_intersections(points, time_stamp), st, 0, 0))

\* fill_gaps_row writing the value handed in into every gap of the row
fill_gaps_row_flat(row, last, index2) ==
    [row |-> [index \in 1..Len(row) |-> IF row[index] = Num(-1) THEN last ELSE row[index]],
     last |-> last]

\* fill_gaps on one row, from index2 down to 0; the result is the row and
\* last_non_zero[index1]
RECURSIVE fill_gaps_row(_, _, _)
fill_gaps_row(row, last, index2) ==
    IF index2 < 0 THEN [row |-> row, last |-> last]
    ELSE IF row[index2 + 1] # Num(-1)
         THEN fill_gaps_row(row, row[index2 + 1], index2 - 1)
         ELSE fill_gaps_row([row EXCEPT ![index2 + 1] = last], last, index2 - 1)

fill_gaps(array, last_non_zero) ==
    [array |-> [index1 \in 1..Len(array) |->
                    fill_gaps_row(array[index1], last_non_zero[index1], Len(array[index1]) - 1).row],
     last_non_zero |-> [index1 \in 1..Len(last_non_zero) |->
                    IF index1 <= Len(array)
                    THEN fill_gaps_row(array[index1], last_non_zero[index1], Len(array[index1]) - 1).last
                    ELSE last_non_zero[index1]]]

Fill_finish(st) ==
    LET lower == fill_gaps(st.lower_frequencies, st.last_nonzero_lower)
        upper == fill_gaps(st.upper_frequencies, st.last_nonzero_upper)
    IN  [st EXCEPT !.lower_frequencies = lower.array, !.last_nonzero_lower = lower.last_non_zero,
                   !.upper_frequencies = upper.array, !.last_nonzero_upper = upper.last_non_zero]

\* the time samples: time_stamp = 0, TimeStep, 2 TimeStep, ... while <= rate
\* ("time_stamp += 0.01" with rate = 5 in the program; here the sweep stops
\* at every unit of the box, on the grid lines and between them)
TimeStep == 1

RECURSIVE Fill_loop(_, _, _)
Fill_loop(points, st, time_stamp) ==
    IF time_stamp <= settings.rate
    THEN Fill_loop(points, Fill_sample(points, st, R(time_stamp)), time_stamp + TimeStep)
    ELSE st

Fill_transcribe_user_shape(points, filters) ==
    Fill_finish(Fill_loop(points, Fill_start(filters), 0))

\* The locals of OutlineAudioProcessor.transcribe_user_shape and the length
\* of this._oscilators, before the first time sample.
Outline_start(oscilators) ==
    [frequencies |-> << >>, last_nonzero |-> << >>, activated |-> << >>,
     counter |-> 0, oscilators |-> oscilators]

\* Outline_compensate adding one oscilator at most
Outline_compensate_single(st, intersections) ==
    LET compensation == IF Len(intersections) > st.oscilators THEN 1 ELSE 0
    IN  [st EXCEPT
            !.frequencies = @ \o Repeat(Repeat(Num(-1), st.counter), compensation),
            !.activated = @ \o Repeat(Repeat(FALSE, st.counter), compensation),
            !.last_nonzero = @ \o Repeat(Num(0), compensation),
            !.oscilators = @ + compensation]

\* "oscilators count compensation"
Outline_compensate(st, intersections) ==
    LET compensation == IF Len(intersections) > st.oscilators
                        THEN Len(intersections) - st.oscilators ELSE 0
    IN  [st EXCEPT
            !.frequencies = @ \o Repeat(Repeat(Num(-1), st.counter), compensation),
            !.activated = @ \o Repeat(Repeat(FALSE, st.counter), compensation),
            !.last_nonzero = @ \o Repeat(Num(0), compensation),
            !.oscilators = @ + compensation]

\* the two while loops of one time sample
Outline_push(st, intersections) ==
    [st EXCEPT
        !.last_nonzero = [v \in 1..Len(@) |->
            IF v <= Len(intersections) THEN Director_normalize_linear(intersections[v].y) ELSE @[v]],
        !.frequencies = [v \in 1..Len(@) |->
            IF v <= Len(intersections)
            THEN Append(@[v], Director_normalize_linear(intersections[v].y))
            ELSE Append(@[v], Num(-1))],
        !.activated = [v \in 1..Len(@) |-> Append(@[v], v <= Len(intersections))]]

\* one time sample, given its sorted intersections
Outline_record(st, intersections) ==
    [Outline_push(Outline_compensate(st, intersections), intersections)
        EXCEPT !.counter = @ + 1]

Outline_sample(points, st, time_stamp) ==
    Outline_record(st, sweep_intersections(points, time_stamp))

Outline_finish(st) ==
    LET filled == fill_gaps(st.frequencies, st.last_nonzero)
    IN  [st EXCEPT !.frequencies = filled.array, !.last_nonzero = filled.last_non_zero]

RECURSIVE Outline_loop(_, _, _)
Outline_loop(points, st, time_stamp) ==
    IF time_stamp <= settings.rate
    THEN Outline_loop(points, Outline_sample(points, st, R(time_stamp)), time_stamp + TimeStep)
    ELSE st

Outline_transcribe_user_shape(points, oscilators) ==
    Outline_finish(Outline_loop(points, Outline_start(oscilators), 0))

\* ------------------------------------------------------------------- state
VARIABLES
    shape,                 \* Director._shape._points, a sequence of Points
    selected_anchor,       \* UserInterface._selected_anchor
    audio_processor_type,  \* "fill" or "outline", fixed at construction
    rendering,             \* the audio processor's _rendering
    rendering_start,       \* the audio processor's _rendering_start
    voices,                \* _filters / _oscilators: the voices of the bank
    connected,             \* the voices whose exit node is connected to _master
    timers,                \* pending setTimeout callbacks, in scheduling order
    passes,                \* the number of render passes started so far
    currentTime,           \* AudioContext.currentTime
    last_update,           \* SpectrumData._last_update
    transcription,         \* the transcribe_user_shape call in progress, if any
    last_call              \* the last handler or operation run, and how it ended

vars == << shape, selected_anchor, audio_processor_type, rendering, rendering_start,
           voices, connected, timers, passes, currentTime, last_update, transcription,
           last_call >>

Idle == [pc |-> "idle"]

Call(op, outcome) == [op |-> op, outcome |-> outcome]

\* a voice is known by the pass that created it and its place in the bank
Voice(pass, index) == [pass |-> pass, index |-> index]

NewVoices(pass, from, to) == [index \in 1..(to - from) |-> Voice(pass, from + index)]

Range(seq) == {seq[index] : index \in 1..Len(seq)}

\* -------------------------------------------------------------- the inputs
\* the positions mouse events are delivered at: on a grid point, off the grid
\* but within reach of an anchor, and outside the box
MousePositions == { Pt(1, 1), Pt(3, 2), Pt(6, 3) }

MouseButtons == { 0, 2 }

\* the vertices polygons are built from where the Polygon is driven directly
Vertices == { Pt(1, 1), Pt(5, 1), Pt(5, 5), Pt(1, 5), Pt(3, 3), Pt(5, 3) }

RECURSIVE SeqsUpTo(_, _)
SeqsUpTo(S, n) ==
    IF n = 0 THEN { << >> }
    ELSE LET shorter == SeqsUpTo(S, n - 1)
         IN  shorter \cup { Append(seq, x) : seq \in {q \in shorter : Len(q) = n - 1}, x \in S }

Init ==
    /\ shape = << >>
    /\ selected_anchor = -1
    /\ audio_processor_type \in { "fill", "outline" }
    /\ rendering = FALSE
    /\ rendering_start = -1
    /\ voices = << >>
    /\ connected = { }
    /\ timers = << >>
    /\ passes = 0
    /\ currentTime = 0
    /\ last_update = -1
    /\ transcription = Idle
    /\ last_call = Call("init", "done")

\* ------------------------------------------------------------------- grid
Grid_limit_coords_within_box(position) ==
    LET box == settings.box
        x == RMin(RMax(position.x, R(box.x)), R(box.x + box.width))
        y == RMin(RMax(position.y, R(box.y)), R(box.y + box.height))
    IN  Point_from_cartesian(x, y)

Grid_snap_to_grid(point) ==
    LET box == settings.box
        limited == Grid_limit_coords_within_box(point)
        x_factor == Math_round(RDiv(RSub(limited.x, R(box.x)), Grid_size.horizontal))
        y_factor == Math_round(RDiv(RSub(limited.y, R(box.y)), Grid_size.vertical))
    IN  Point_from_cartesian(RAdd(RMul(R(x_factor), Grid_size.horizontal), R(box.x)),
                             RAdd(RMul(R(y_factor), Grid_size.vertical), R(box.y)))

\* --------------------------------------------------------------- director
\* get_selection counting the anchors from 1
Director_get_selection_from_one(points, mouse_position) ==
    LET reach == settings.anchor_size + settings.stroke_thickness
        hits == {index \in 1..Len(points) :
                     RLe(dist2(mouse_position, points[index]), R(reach * reach))}
    IN  IF hits = { } THEN -1 ELSE CHOOSE index \in hits : \A other \in hits : other <= index

\* the last anchor within anchor_size + stroke_thickness of the mouse, or -1
Director_get_selection(points, mouse_position) ==
    LET reach == settings.anchor_size + settings.stroke_thickness
        hits == {index \in 0..(Len(points) - 1) :
                     RLe(dist2(mouse_position, points[index + 1]), R(reach * reach))}
    IN  IF hits = { } THEN -1 ELSE CHOOSE index \in hits : \A other \in hits : other <= index

\* --------------------------------------------------------- audio processor
\* detach that disconnects nothing
AudioProcessor_detach_nothing(bus, bank) == bus

\* detach(): every voice of the bank is disconnected from the master bus
AudioProcessor_detach(bus, bank) == bus \ Range(bank)

\* add_filters(count) / add_oscilators(count): new voices, connected to the
\* master bus and pushed on the bank
AudioProcessor_add(bank, pass, count) == bank \o NewVoices(pass, Len(bank), Len(bank) + count)

\* the number of voices transcribe_user_shape leaves in the bank
TranscribedBank(points, type) ==
    IF type = "fill" THEN Fill_transcribe_user_shape(points, 0).filters
    ELSE Outline_transcribe_user_shape(points, 0).oscilators

\* FillAudioProcessor.render() / OutlineAudioProcessor.render(), run to
\* completion: detach, empty the bank, transcribe (which fills the bank),
\* load the curves, raise the flag, note the start time, set the timer.
AudioProcessor_render ==
    /\ passes < MaxPasses
    /\ passes' = passes + 1
    /\ voices' = AudioProcessor_add(<< >>, passes + 1, TranscribedBank(shape, audio_processor_type))
    /\ connected' = AudioProcessor_detach(connected, voices) \cup Range(voices')
    /\ rendering' = TRUE
    /\ rendering_start' = currentTime
    /\ timers' = Append(timers, passes + 1)
    /\ UNCHANGED << shape, selected_anchor, audio_processor_type, currentTime, last_update, transcription >>

\* the callback leaving the flag as it is
Timeout_flag_kept ==
    /\ timers # << >>
    /\ transcription.pc # "sweep"
    /\ timers' = Tail(timers)
    /\ last_call' = Call("timeout", "done")
    /\ UNCHANGED << shape, selected_anchor, audio_processor_type, rendering, rendering_start,
                    voices, connected, passes, currentTime, last_update, transcription >>

\* the callback of a timer that stays set (setInterval for setTimeout)
Timeout_repeating ==
    /\ timers # << >>
    /\ transcription.pc # "sweep"
    /\ rendering' = FALSE
    /\ last_call' = Call("timeout", "done")
    /\ UNCHANGED << shape, selected_anchor, audio_processor_type, rendering_start,
                    voices, connected, timers, passes, currentTime, last_update, transcription >>

\* the callback of setTimeout(..., rate * 1000)
Timeout ==
    /\ timers # << >>
    /\ transcription.pc # "sweep"      \* a callback never runs inside render()
    /\ rendering' = FALSE
    /\ timers' = Tail(timers)
    /\ last_call' = Call("timeout", "done")
    /\ UNCHANGED << shape, selected_anchor, audio_processor_type, rendering_start,
                    voices, connected, passes, currentTime, last_update, transcription >>

\* the audio clock advances
Tick ==
    /\ currentTime < MaxClock
    /\ currentTime' = currentTime + 1
    /\ UNCHANGED << shape, selected_anchor, audio_processor_type, rendering, rendering_start,
                    voices, connected, timers, passes, last_update, transcription, last_call >>

\* ------------------------------------------------------ director: handlers
Ignored(op) ==
    /\ last_call' = Call(op, "ignored")
    /\ UNCHANGED << shape, selected_anchor, audio_processor_type, rendering, rendering_start,
                    voices, connected, timers, passes, currentTime, last_update, transcription >>

\* Director.render without its guard
Director_render_unguarded ==
    AudioProcessor_render /\ last_call' = Call("render", "done")

Director_render ==
    IF rendering THEN Ignored("render")
    ELSE AudioProcessor_render /\ last_call' = Call("render", "done")

NoAudioChange ==
    UNCHANGED << audio_processor_type, rendering, rendering_start, voices, connected,
                 timers, passes, currentTime, last_update, transcription >>

\* UserInterface.handle_mouse_down
UserInterface_handle_mouse_down(mouse_position, button) ==
    LET selection == Director_get_selection(shape, mouse_position)
        deleted == Polygon_delete(shape, selection)
    IN  IF button = 2 /\ selection # -1
        THEN /\ shape' = deleted.points
             /\ selected_anchor' = IF deleted.error = "none" THEN -1 ELSE selection
             /\ last_call' = Call("mouse_down", IF deleted.error = "none" THEN "done" ELSE "error")
        ELSE /\ selected_anchor' = selection
             /\ last_call' = Call("mouse_down", "done")
             /\ UNCHANGED shape

\* UserInterface.handle_mouse_move
UserInterface_handle_mouse_move(mouse_position) ==
    LET within_box == Grid_snap_to_grid(Point_from_cartesian(mouse_position.x, mouse_position.y))
        replaced == Polygon_replace(shape, selected_anchor, within_box)
    IN  IF selected_anchor # -1
        THEN /\ shape' = replaced.points
             /\ last_call' = Call("mouse_move", IF replaced.error = "none" THEN "done" ELSE "error")
             /\ UNCHANGED selected_anchor
        ELSE /\ last_call' = Call("mouse_move", "done")
             /\ UNCHANGED << shape, selected_anchor >>

\* UserInterface.handle_mouse_up
UserInterface_handle_mouse_up(mouse_position, button) ==
    LET position == Grid_snap_to_grid(Point_from_cartesian(mouse_position.x, mouse_position.y))
    IN  IF selected_anchor = -1 /\ button = 0
        THEN /\ Len(shape) < MaxAnchors
             /\ shape' = Polygon_insert(shape, position)
             /\ last_call' = Call("mouse_up", "done")
             /\ UNCHANGED selected_anchor
        ELSE /\ selected_anchor' = -1
             /\ last_call' = Call("mouse_up", "done")
             /\ UNCHANGED shape

\* mouse_down_handler without its guard
Director_mouse_down_unguarded(mouse_position, button) ==
    UserInterface_handle_mouse_down(mouse_position, button) /\ NoAudioChange

Director_mouse_down_handler(mouse_position, button) ==
    IF rendering THEN Ignored("mouse_down")
    ELSE UserInterface_handle_mouse_down(mouse_position, button) /\ NoAudioChange

Director_mouse_move_handler(mouse_position) ==
    IF rendering THEN Ignored("mouse_move")
    ELSE UserInterface_handle_mouse_move(mouse_position) /\ NoAudioChange

\* mouse_up_handler without its guard
Director_mouse_up_unguarded(mouse_position, button) ==
    UserInterface_handle_mouse_up(mouse_position, button) /\ NoAudioChange

Director_mouse_up_handler(mouse_position, button) ==
    IF rendering THEN Ignored("mouse_up")
    ELSE UserInterface_handle_mouse_up(mouse_position, button) /\ NoAudioChange

MouseDown == \E mouse_position \in MousePositions, button \in MouseButtons :
                Director_mouse_down_handler(mouse_position, button)

MouseMove == \E mouse_position \in MousePositions : Director_mouse_move_handler(mouse_position)

MouseUp == \E mouse_position \in MousePositions, button \in MouseButtons :
                Director_mouse_up_handler(mouse_position, button)

\* the program as window.onload wires it: the three mouse events of the
\* canvas, the render button, the reset timer, and the audio clock
Next ==
    \/ MouseDown
    \/ MouseMove
    \/ MouseUp
    \/ Director_render
    \/ Timeout
    \/ Tick

Spec == Init /\ [][Next]_vars

\* the timer callback runs once it is due
FairSpec == Spec /\ WF_vars(Timeout)

\* --------------------------------------- the Director and processor, called
\* The public methods window.onload does not wire to an event, called by a
\* client of the classes at any time: Director.insert / delete / replace and
\* the audio processor's render().
OnlyShape ==
    UNCHANGED << selected_anchor, audio_processor_type, rendering, rendering_start,
                 voices, connected, timers, passes, currentTime, last_update, transcription >>

Director_insert(point) ==
    /\ Len(shape) < MaxAnchors
    /\ shape' = Polygon_insert(shape, point)
    /\ last_call' = Call("Director.insert", "done")
    /\ OnlyShape

\* the effect of a Director method that hands on what the Polygon returns
Director_returns(op, result) ==
    /\ shape' = result.points
    /\ last_call' = Call(op, IF result.error = "none" THEN "done" ELSE "error")
    /\ OnlyShape

Director_delete(index) == Director_returns("Director.delete", Polygon_delete(shape, index))

Director_replace(index, point) ==
    Director_returns("Director.replace", Polygon_replace(shape, index, point))

AudioProcessor_render_call ==
    AudioProcessor_render /\ last_call' = Call("AudioProcessor.render", "done")

AnchorIndices == -1..MaxAnchors

\* the points handed to the Director: grid points, as its callers snap them
GridPoints == { Grid_snap_to_grid(mouse_position) : mouse_position \in MousePositions }

DirectorEdit ==
    \/ \E point \in GridPoints : Director_insert(point)
    \/ \E index \in AnchorIndices : Director_delete(index)
    \/ \E index \in AnchorIndices, point \in GridPoints : Director_replace(index, point)

\* the wired events and the Director's editing methods; the audio clock is
\* left at rest
NextEdit ==
    \/ MouseDown
    \/ MouseMove
    \/ MouseUp
    \/ Director_render
    \/ Timeout
    \/ DirectorEdit

SpecEdit == Init /\ [][NextEdit]_vars

\* the wired events and the audio processor's render()
NextApi ==
    \/ Next
    \/ AudioProcessor_render_call

SpecApi == Init /\ [][NextApi]_vars

\* ------------------------------------------- render(), one time sample a step
\* The same render() as AudioProcessor_render, followed through the loop of
\* transcribe_user_shape: transcription holds the position in the loop
\* (time_stamp) and the locals (st); voices is this._filters / _oscilators.
\* the polygons swept: up to MaxPoints distinct vertices, in any order
Polygons ==
    { points \in SeqsUpTo(Vertices, MaxPoints) :
          \A index1, index2 \in 1..Len(points) :
              index1 # index2 => points[index1] # points[index2] }

InitSweep ==
    /\ shape \in Polygons
    /\ selected_anchor = -1
    /\ audio_processor_type \in { "fill", "outline" }
    /\ rendering = FALSE
    /\ rendering_start = -1
    /\ voices = << >>
    /\ connected = { }
    /\ timers = << >>
    /\ passes = 0
    /\ currentTime = 0
    /\ last_update = -1
    /\ transcription = Idle
    /\ last_call = Call("init", "done")

\* the length of the bank the locals st go with
Bank(st, type) == IF type = "fill" THEN st.filters ELSE st.oscilators

\* Director.render() up to the first time sample: the guard, detach(), the
\* bank emptied, the locals of transcribe_user_shape declared
Render_begin ==
    /\ ~rendering
    /\ transcription.pc # "sweep"
    /\ passes < MaxPasses
    /\ passes' = passes + 1
    /\ voices' = << >>
    /\ connected' = AudioProcessor_detach(connected, voices)
    /\ transcription' = [pc |-> "sweep", time_stamp |-> 0,
                         st |-> IF audio_processor_type = "fill"
                                THEN Fill_start(0) ELSE Outline_start(0)]
    /\ last_call' = Call("render", "transcribing")
    /\ UNCHANGED << shape, selected_anchor, audio_processor_type, rendering,
                    rendering_start, timers, currentTime, last_update >>

\* the bank after a time sample: the voices add_filters / add_oscilators made
Transcribe_bank(bank, bus, pass, st, time_stamp) ==
    /\ voices' = AudioProcessor_add(bank, pass, Bank(st, audio_processor_type) - Len(bank))
    /\ connected' = bus \cup Range(voices')
    /\ transcription' = [pc |-> "sweep", time_stamp |-> time_stamp + TimeStep, st |-> st]

\* one iteration of the loop over the time samples
Transcribe_sample ==
    /\ transcription.pc = "sweep"
    /\ transcription.time_stamp <= settings.rate
    /\ Transcribe_bank(voices, connected, passes,
                       IF audio_processor_type = "fill"
                       THEN Fill_sample(shape, transcription.st, R(transcription.time_stamp))
                       ELSE Outline_sample(shape, transcription.st, R(transcription.time_stamp)),
                       transcription.time_stamp)
    /\ UNCHANGED << shape, selected_anchor, audio_processor_type, rendering,
                    rendering_start, timers, passes, currentTime, last_update, last_call >>

\* the loop left: fill_gaps, the curves returned, the flag raised, the start
\* time noted, the reset timer set
Render_end ==
    /\ transcription.pc = "sweep"
    /\ transcription.time_stamp > settings.rate
    /\ transcription' = [pc |-> "done",
                         st |-> IF audio_processor_type = "fill"
                                THEN Fill_finish(transcription.st)
                                ELSE Outline_finish(transcription.st)]
    /\ rendering' = TRUE
    /\ rendering_start' = currentTime
    /\ timers' = Append(timers, passes)
    /\ last_call' = Call("render", "done")
    /\ UNCHANGED << shape, selected_anchor, audio_processor_type, voices, connected,
                    passes, currentTime, last_update >>

NextSweep ==
    \/ Render_begin
    \/ Transcribe_sample
    \/ Render_end
    \/ Timeout

SpecSweep == InitSweep /\ [][NextSweep]_vars

\* ------------------------------------------------ the Polygon, used directly
\* Polygon.insert / delete / replace / is_inside called with any argument, as
\* a caller of the class may: indices from -1 to MaxPoints, vertices of which
\* two have the same angle, the fill rules and one that is not implemented.
Indices == -1..MaxPoints

ApiVertices == { Pt(1, 1), Pt(5, 1), Pt(3, 3), Pt(5, 3) }

QueryPoints == { Pt(3, 0), Pt(3, 4), Pt(2, 2), Pt(4, 3) }

FillRules == { "nonzero", "evenodd", "winding" }

OnlyPolygon ==
    UNCHANGED << selected_anchor, audio_processor_type, rendering, rendering_start,
                 voices, connected, timers, passes, currentTime, last_update, transcription >>

Polygon_insert_call(point) ==
    /\ Len(shape) < MaxPoints
    /\ shape' = Polygon_insert(shape, point)
    /\ last_call' = Call("insert", "done")
    /\ OnlyPolygon

\* the effect of a call that returns [points, error]
Polygon_returns(op, result) ==
    /\ shape' = result.points
    /\ last_call' = Call(op, IF result.error = "none" THEN "done" ELSE "error")
    /\ OnlyPolygon

Polygon_delete_call(index) == Polygon_returns("delete", Polygon_delete(shape, index))

Polygon_replace_call(index, value) ==
    Polygon_returns("replace", Polygon_replace(shape, index, value))

\* the effect of a call that returns [value, error] and changes nothing
Polygon_answers(op, result) ==
    /\ last_call' = Call(op, IF result.error # "none" THEN "error"
                             ELSE IF result.value THEN "true" ELSE "false")
    /\ UNCHANGED shape
    /\ OnlyPolygon

Polygon_is_inside_call(point, rule) ==
    Polygon_answers("is_inside", Polygon_is_inside(shape, point, rule))

NextPolygon ==
    \/ \E point \in ApiVertices : Polygon_insert_call(point)
    \/ \E index \in Indices : Polygon_delete_call(index)
    \/ \E index \in Indices, value \in ApiVertices : Polygon_replace_call(index, value)
    \/ \E point \in QueryPoints, rule \in FillRules : Polygon_is_inside_call(point, rule)

\* the page opened without a "type" parameter: the Fill processor
InitPolygon == Init /\ audio_processor_type = "fill"

SpecPolygon == InitPolygon /\ [][NextPolygon]_vars

\* ------------------------------------------------------------ shared links
\* The share button puts Director.serialize() behind the "#" of a link, and a
\* page opened with such a link hands the text behind the "#" to
\* Director.deserialize.  A Point keeps (angle, radius, origin); the model keeps
\* its position, so the two forms are converted into each other here.
Point_origin == [x |-> R(settings.origin.x), y |-> R(settings.origin.y)]

\* Point.radius; the model keeps the square of the radius, which grows
\* strictly with the radius
Point_radius(p) == dist2(p, Point_origin)

\* the largest integer whose square is at most n
ISqrt(n) == CHOOSE k \in 0..n : k * k <= n /\ (k + 1) * (k + 1) > n

RSqrt(p) == Rat(ISqrt(p.n), ISqrt(p.d))

\* (cos(angle), sin(angle)) up to a positive factor, from the diamond angle
polar_direction(quadrant, fraction) ==
    IF quadrant = 0 THEN [x |-> RSub(R(1), fraction), y |-> fraction]
    ELSE IF quadrant = 1 THEN [x |-> RNeg(fraction), y |-> RSub(R(1), fraction)]
    ELSE IF quadrant = 2 THEN [x |-> RNeg(RSub(R(1), fraction)), y |-> RNeg(fraction)]
    ELSE [x |-> fraction, y |-> RNeg(RSub(R(1), fraction))]

\* the position cos(angle) * radius + origin_x, sin(angle) * radius + origin_y
polar_position(direction, radius, origin_x, origin_y) ==
    [x |-> RAdd(RMul(direction.x, RSqrt(RDiv(radius, dist2(direction, Pt(0, 0))))), origin_x),
     y |-> RAdd(RMul(direction.y, RSqrt(RDiv(radius, dist2(direction, Pt(0, 0))))), origin_y)]

\* Point.from_polar, read through the getters x and y
Point_from_polar(angle, radius, origin_x, origin_y) ==
    polar_position(polar_direction(angle.n \div angle.d, RSub(angle, R(angle.n \div angle.d))),
                   radius, origin_x, origin_y)

\* JSON.stringify of a number: NaN and the infinities are written as null,
\* which reads back as null and counts as 0 in cos, sin, "*" and "<"
JSON_number(value) == IF isFinite(value) THEN value ELSE R(0)

\* JSON.stringify of the mapped points: the text of an array of {a, r, x, y}
JSON_stringify(entries) ==
    [json |-> [index \in 1..Len(entries) |->
                   [a |-> JSON_number(entries[index].a), r |-> JSON_number(entries[index].r),
                    x |-> JSON_number(entries[index].x), y |-> JSON_number(entries[index].y)]]]

\* JSON.parse: the value of a JSON text, or a SyntaxError
JSON_parse(text) ==
    IF "json" \in DOMAIN text
    THEN [value |-> text.json, error |-> "none"]
    ELSE [value |-> << >>, error |-> "SyntaxError"]

\* btoa: the base64 form of a text
btoa(text) == [base64 |-> text]

\* atob: the text of a base64 form, or an InvalidCharacterError
atob(data) ==
    IF "base64" \in DOMAIN data
    THEN [value |-> data.base64, error |-> "none"]
    ELSE [value |-> [text |-> ""], error |-> "InvalidCharacterError"]

\* this._shape.points.map(point => ({a: ..., r: ..., x: ..., y: ...}))
serialize_points(points) ==
    [index \in 1..Len(points) |->
         [a |-> Point_angle(points[index]), r |-> Point_radius(points[index]),
          x |-> Point_origin.x, y |-> Point_origin.y]]

Director_serialize(points) == btoa(JSON_stringify(serialize_points(points)))

\* deserialize_points with push in place of polygon.insert
deserialize_points_pushed(polygon, pointsData, index) ==
    polygon \o [place \in 1..(Len(pointsData) - index + 1) |->
                    Point_from_polar(pointsData[index + place - 1].a, pointsData[index + place - 1].r,
                                     pointsData[index + place - 1].x, pointsData[index + place - 1].y)]

\* pointsData.forEach(data => polygon.insert(Point.from_polar(...))), from
\* entry index on
RECURSIVE deserialize_points(_, _, _)
deserialize_points(polygon, pointsData, index) ==
    IF index > Len(pointsData) THEN polygon
    ELSE deserialize_points(
             Polygon_insert(polygon,
                            Point_from_polar(pointsData[index].a, pointsData[index].r,
                                             pointsData[index].x, pointsData[index].y)),
             pointsData, index + 1)

\* deserialize after JSON.parse
deserialize_parsed(points, pointsData) ==
    IF pointsData.error # "none" THEN [points |-> points, error |-> pointsData.error]
    ELSE [points |-> deserialize_points(<< >>, pointsData.value, 1), error |-> "none"]

\* deserialize after atob
deserialize_decoded(points, json) ==
    IF json.error # "none" THEN [points |-> points, error |-> json.error]
    ELSE deserialize_parsed(points, JSON_parse(json.value))

\* Director_deserialize with this._shape replaced before the text is read
Director_deserialize_shape_first(points, data) ==
    deserialize_decoded(<< >>, atob(data))

\* Director.deserialize: the new _shape, or the old one and the error thrown
Director_deserialize(points, data) ==
    deserialize_decoded(points, atob(data))

\* the texts found behind the "#": links made by the share button for
\* polygons in any order, a text that is not base64, and base64 of a text that
\* is not JSON
MaxLinkPoints == 2

\* the origin, a point of the same angle further out, a point of a greater angle
LinkVertices == { Pt(3, 3), Pt(5, 3), Pt(1, 1) }

LinkPolygons == SeqsUpTo(LinkVertices, MaxLinkPoints)

NotBase64 == [text |-> "%7B%7D"]

NotJSON == btoa([text |-> "[{a:"])

MalformedHashes == { NotBase64, NotJSON }

Hashes == MalformedHashes \cup { Director_serialize(points) : points \in LinkPolygons }

Director_deserialize_returns(result) ==
    /\ shape' = result.points
    /\ last_call' = Call("deserialize", IF result.error = "none" THEN "done" ELSE result.error)
    /\ OnlyPolygon

Director_deserialize_call(data) ==
    Director_deserialize_returns(Director_deserialize(shape, data))

\* the link of the share button, opened: deserialize(serialize())
Director_share ==
    /\ shape' = Director_deserialize(shape, Director_serialize(shape)).points
    /\ last_call' = Call("share", "done")
    /\ OnlyPolygon

\* Polygon.insert on the polygon of a page opened from a link
Polygon_insert_linked(point) ==
    /\ Len(shape) <= MaxLinkPoints
    /\ shape' = Polygon_insert(shape, point)
    /\ last_call' = Call("insert", "done")
    /\ OnlyPolygon

NextLink ==
    \/ \E point \in LinkVertices : Polygon_insert_linked(point)
    \/ \E index \in Indices, value \in LinkVertices : Polygon_replace_call(index, value)
    \/ \E data \in Hashes : Director_deserialize_call(data)
    \/ Director_share

SpecLink == InitPolygon /\ [][NextLink]_vars

\* -------------------------------------------------------- the elapsed time
\* current_time without the check of the flag
AudioProcessor_current_time_unchecked(is_rendering, clock, start) ==
    [value |-> clock - start, error |-> "none"]

\* the getter current_time of both processors: the elapsed time, or the error
\* thrown
AudioProcessor_current_time(is_rendering, clock, start) ==
    IF ~is_rendering
    THEN [value |-> 0, error |-> "Unable to fetch current time unless render is running"]
    ELSE [value |-> clock - start, error |-> "none"]

\* the effect of reading the getter
current_time_returns(result) ==
    /\ last_call' = Call("current_time",
                         IF result.error # "none" THEN "error" ELSE ToString(result.value))
    /\ UNCHANGED << shape, selected_anchor, audio_processor_type, rendering, rendering_start,
                    voices, connected, timers, passes, currentTime, last_update, transcription >>

\* Director.current_time, read by the spectrum display and by
\* get_caret_position
Director_current_time ==
    current_time_returns(AudioProcessor_current_time(rendering, currentTime, rendering_start))

NextClock ==
    \/ Director_render
    \/ Timeout
    \/ Tick
    \/ Director_current_time
    \/ MouseUp

SpecClock == Init /\ [][NextClock]_vars

\* ------------------------------------------------------ the redraw callback
\* SpectrumData.get_frequency_data: the elapsed time it stores in _last_update
SpectrumData_get_frequency_data(is_rendering, clock, start) ==
    AudioProcessor_current_time(is_rendering, clock, start)

\* SpectrumImager.draw_spectrum: get_frequency_data, then current_time read
\* again for the width of the column; the result is _last_update afterwards
SpectrumImager_draw_spectrum(is_rendering, clock, start, stored) ==
    LET data == SpectrumData_get_frequency_data(is_rendering, clock, start)
        current_time == AudioProcessor_current_time(is_rendering, clock, start)
    IN  IF data.error # "none" THEN [last_update |-> stored, error |-> data.error]
        ELSE [last_update |-> data.value, error |-> current_time.error]

\* GraphicalInterface.draw_render_progress: the caret at get_caret_position()
GraphicalInterface_draw_render_progress(is_rendering, clock, start) ==
    LET current_time == AudioProcessor_current_time(is_rendering, clock, start)
    IN  IF current_time.error # "none" THEN [value |-> R(0), error |-> current_time.error]
        ELSE [value |-> Director_get_caret_position(R(current_time.value)), error |-> "none"]

\* the effect of one redraw on the state
update_returns(outcome, stored) ==
    /\ last_call' = Call("update", outcome)
    /\ last_update' = stored
    /\ UNCHANGED << shape, selected_anchor, audio_processor_type, rendering, rendering_start,
                    voices, connected, timers, passes, currentTime, transcription >>

\* the caret and the spectrum drawn: an error of the first leaves the second
\* undone
update_progress(caret, spectrum) ==
    IF caret.error # "none" THEN update_returns("error", last_update)
    ELSE IF spectrum.error # "none" THEN update_returns("error", spectrum.last_update)
    ELSE update_returns("progress", spectrum.last_update)

\* update drawing the caret and the spectrum in every frame
Director_update_unguarded ==
    update_progress(
        GraphicalInterface_draw_render_progress(rendering, currentTime, rendering_start),
        SpectrumImager_draw_spectrum(rendering, currentTime, rendering_start, last_update))

\* Director.update, the requestAnimationFrame callback: the canvas redrawn,
\* and while rendering the caret and the spectrum
Director_update ==
    IF rendering
    THEN update_progress(
             GraphicalInterface_draw_render_progress(rendering, currentTime, rendering_start),
             SpectrumImager_draw_spectrum(rendering, currentTime, rendering_start, last_update))
    ELSE update_returns("drawn", last_update)

NextRedraw ==
    \/ Director_render
    \/ Timeout
    \/ Tick
    \/ Director_update
    \/ MouseUp

SpecRedraw == Init /\ [][NextRedraw]_vars

\* ================================================================ the claims
Max(S) == CHOOSE x \in S : \A y \in S : y <= x

\* the active bands of one time sample: the adjacent pairs of the sorted
\* intersections whose midpoint is inside under "nonzero"
ActiveBandsOf(points, intersections) ==
    Cardinality({index \in 0..(Len(intersections) - 2) :
                     Fill_pair_inside(points, intersections, index)})

ActiveBands(points, time_stamp) ==
    ActiveBandsOf(points, sweep_intersections(points, R(time_stamp)))

\* the time samples of a whole sweep
TimeSamples == {time_stamp \in 0..settings.rate : time_stamp % TimeStep = 0}

\* k: the most bands any time sample has (0 when no sample has one)
MaxActiveBands(points) ==
    Max({0} \cup {ActiveBands(points, time_stamp) : time_stamp \in TimeSamples})

Filling == audio_processor_type = "fill"

\* C1, at the end of the sweep: the bank holds exactly k voices
C1_BankAtEnd ==
    (Filling /\ transcription.pc = "done") =>
        /\ Len(voices) = MaxActiveBands(shape)
        /\ transcription.st.filters = Len(voices)

\* C1, during the sweep: a time sample leaves the voices of the bank in place
\* and extends it up to the number of the sample's active bands
C1_BankGrows ==
    (Filling /\ transcription.pc = "sweep" /\ transcription'.pc = "sweep") =>
        /\ Len(voices') = Max({Len(voices), ActiveBands(shape, transcription.time_stamp)})
        /\ SubSeq(voices', 1, Len(voices)) = voices
        /\ transcription'.st.filters = Len(voices')

\* C1: a Fill transcription started on an empty bank only ever grows the
\* bank, after each time sample the bank is as large as the largest number of
\* active bands met so far, and at the end of the sweep it holds exactly k
\* voices, k the maximum over the time samples of the active band count
C1_FillAllocatesMaxBands == [](C1_BankAtEnd) /\ [][C1_BankGrows]_vars

\* C1 witness: a Fill sweep that ended with two voices (the dart has two
\* bands at once)
C1_Witness ==
    /\ Filling
    /\ transcription.pc = "done"
    /\ Len(voices) = 2
    /\ MaxActiveBands(shape) = 2

\* the curve arrays of the locals st, one sequence of rows per kind of curve
CurveArrays(st) ==
    IF Filling THEN << st.lower_frequencies, st.upper_frequencies, st.activated >>
    ELSE << st.frequencies, st.activated >>

FrequencyArrays(st) ==
    IF Filling THEN << st.lower_frequencies, st.upper_frequencies >>
    ELSE << st.frequencies >>

\* every curve array has one row per voice, each of the given length
CurvesHaveLength(st, bank, length) ==
    \A kind \in 1..Len(CurveArrays(st)) :
        /\ Len(CurveArrays(st)[kind]) = bank
        /\ \A voice \in 1..bank : Len(CurveArrays(st)[kind][voice]) = length

\* every voice has a first active entry, and only -1 / false before it
BackFilled(st, bank) ==
    \A voice \in 1..bank :
        \E first \in 1..Len(st.activated[voice]) :
            /\ st.activated[voice][first]
            /\ \A index \in 1..(first - 1) :
                   /\ ~st.activated[voice][index]
                   /\ \A kind \in 1..Len(FrequencyArrays(st)) :
                          FrequencyArrays(st)[kind][voice][index] = Num(-1)

\* C2: in a Fill and in an Outline transcription, after every time sample
\* all curve arrays of all voices have the same length, the number of samples
\* processed so far; a voice allocated later starts with inactive entries
\* (-1 / false) for the samples before it; at the end every array is as long
\* as there are time samples
C2_CurvesEqualLength ==
    /\ transcription.pc = "sweep" =>
           /\ transcription.st.counter * TimeStep = transcription.time_stamp
           /\ CurvesHaveLength(transcription.st, Len(voices), transcription.st.counter)
           /\ BackFilled(transcription.st, Len(voices))
    /\ transcription.pc = "done" =>
           CurvesHaveLength(transcription.st, Len(voices), Cardinality(TimeSamples))

\* C2 witness: in mid-sweep, a voice allocated after the first sample
C2_Witness ==
    /\ transcription.pc = "sweep"
    /\ transcription.st.counter >= 2
    /\ \E voice \in 1..Len(voices) :
           /\ ~transcription.st.activated[voice][1]
           /\ transcription.st.activated[voice][transcription.st.counter]

\* C3: Director.render() called while rendering is true changes nothing:
\* the bank and what is connected, the flag and the start time, the pending
\* timers are as before, and no transcription pass is run
C3_RenderRejected ==
    [][(rendering /\ last_call'.op = "render") =>
           UNCHANGED << voices, connected, rendering, rendering_start, timers, passes,
                        transcription, shape, selected_anchor >>]_vars

\* C3 witness: a render() has been turned away during a rendering
C3_Witness ==
    /\ rendering
    /\ last_call = Call("render", "ignored")
    /\ voices # << >>

\* C4: FillAudioProcessor.render() and OutlineAudioProcessor.render() called
\* while the processor's flag is true do nothing: no voice is detached or
\* made, no further reset timer is set
C4_ProcessorRenderGuarded ==
    [][(rendering /\ last_call'.op = "AudioProcessor.render") =>
           UNCHANGED << voices, connected, timers, passes >>]_vars

\* C5, the flag rises only at the end of a render(), which sets its timer
C5_Raised ==
    (~rendering /\ rendering') =>
        /\ last_call' = Call("render", "done")
        /\ timers' = Append(timers, passes')

\* C5, the flag falls only when the timer of the last render() fires
C5_Lowered ==
    (rendering /\ ~rendering') =>
        /\ last_call' = Call("timeout", "done")
        /\ timers = << passes >>
        /\ timers' = << >>

\* C5: the flag is false at first, becomes true only at the end of a
\* render() call, becomes false only when the reset timer that render() set
\* fires, and, the timer being fair, every rendering is followed by a state
\* where the flag is false
C5_IdleRenderingIdle ==
    /\ ~rendering
    /\ [][C5_Raised /\ C5_Lowered]_vars
    /\ (rendering ~> ~rendering)

\* C5 witness: a rendering has been ended by its timer
C5_Witness ==
    /\ ~rendering
    /\ last_call = Call("timeout", "done")
    /\ passes >= 1
    /\ timers = << >>

\* C6, as stated: Director.insert, Director.replace and Director.delete
\* called while rendering is true leave the points as they are
C6_EditsRejected ==
    [][(rendering /\ last_call'.op \in { "Director.insert", "Director.replace",
                                         "Director.delete" }) =>
           UNCHANGED shape]_vars

\* C6, amended: a mouse event delivered to the Director's handlers while
\* rendering is true leaves the points and the selected anchor as they are
C6_MouseEditsIgnored ==
    [][(rendering /\ last_call'.op \in { "mouse_down", "mouse_move", "mouse_up" }) =>
           /\ last_call'.outcome = "ignored"
           /\ UNCHANGED << shape, selected_anchor >>]_vars

\* C6 witness: a mouse-up was ignored during a rendering
C6_Witness ==
    /\ rendering
    /\ last_call = Call("mouse_up", "ignored")

\* the points are in ascending order of angle
Sorted(points) ==
    \A index \in 1..(Len(points) - 1) :
        RLe(Point_angle(points[index]), Point_angle(points[index + 1]))

\* result is points with point put in at (0-based) index, nothing else moved
InsertedAt(points, point, index, result) ==
    /\ Len(result) = Len(points) + 1
    /\ result[index + 1] = point
    /\ \A before \in 1..index : result[before] = points[before]
    /\ \A after \in (index + 1)..Len(points) : result[after + 1] = points[after]

C7_InsertPlace(point) ==
    (last_call'.op = "insert" /\ Sorted(shape) /\ Polygon_insert_call(point)) =>
        \E index \in 0..Len(shape) :
            /\ InsertedAt(shape, point, index, shape')
            /\ \A before \in 1..index :
                   RLe(Point_angle(shape[before]), Point_angle(point))
            /\ index < Len(shape) =>
                   RLt(Point_angle(point), Point_angle(shape[index + 1]))
            /\ Sorted(shape')

\* C7: Polygon.insert(p) on an angle-sorted sequence puts p right before the
\* first point whose angle is strictly larger than p's, at the end when there
\* is none: the sequence is one longer, still sorted, the earlier points keep
\* their order, and p comes after the points of the same angle
C7_InsertKeepsOrder == [][\A point \in ApiVertices : C7_InsertPlace(point)]_vars

\* C7 witness: an insert has put a point behind one of the same angle
C7_Witness ==
    /\ last_call = Call("insert", "done")
    /\ Sorted(shape)
    /\ \E index \in 1..(Len(shape) - 1) :
           /\ shape[index] # shape[index + 1]
           /\ Point_angle(shape[index]) = Point_angle(shape[index + 1])

\* C8: whatever inserts, replaces and deletes are made from the empty
\* polygon, its points are in ascending order of angle
C8_AlwaysSorted == Sorted(shape)

OutOfBounds(points, index) == index < 0 \/ index >= Len(points)

C9_Delete(index) ==
    (last_call'.op = "delete" /\ Polygon_delete_call(index)) =>
        IF OutOfBounds(shape, index)
        THEN shape' = shape /\ last_call' = Call("delete", "error")
        ELSE /\ last_call' = Call("delete", "done")
             /\ Len(shape') = Len(shape) - 1
             /\ \A before \in 1..index : shape'[before] = shape[before]
             /\ \A after \in (index + 2)..Len(shape) : shape'[after - 1] = shape[after]

C9_Replace(index, value) ==
    (last_call'.op = "replace" /\ Polygon_replace_call(index, value)) =>
        IF OutOfBounds(shape, index)
        THEN shape' = shape /\ last_call' = Call("replace", "error")
        ELSE /\ last_call' = Call("replace", "done")
             /\ Len(shape') = Len(shape)
             /\ shape'[index + 1] = value
             /\ \A other \in 1..Len(shape) : other # index + 1 => shape'[other] = shape[other]

\* C9: Polygon.delete and Polygon.replace with an index below 0 or not below
\* the number of points end in an error with the points as they were; with
\* an index in bounds delete takes out that point only and replace overwrites
\* that slot only
C9_BoundsChecked ==
    [][\A index \in Indices :
           /\ C9_Delete(index)
           /\ \A value \in ApiVertices : C9_Replace(index, value)]_vars

\* C9 witness: a delete or replace of a polygon with points ended in an error
C9_Witness ==
    /\ last_call \in { Call("delete", "error"), Call("replace", "error") }
    /\ shape # << >>

\* the sign of the turn from p to q to r
Orientation(p, q, r) ==
    Sgn(RSub(RMul(RSub(q.x, p.x), RSub(r.y, p.y)),
             RMul(RSub(q.y, p.y), RSub(r.x, p.x))).n)

\* r lies on the closed segment from p to q
OnSegment(p, q, r) ==
    /\ Orientation(p, q, r) = 0
    /\ RLe(RMin(p.x, q.x), r.x) /\ RLe(r.x, RMax(p.x, q.x))
    /\ RLe(RMin(p.y, q.y), r.y) /\ RLe(r.y, RMax(p.y, q.y))

\* the closed segments p1 q1 and p2 q2 have a point in common
SegmentsMeet(p1, q1, p2, q2) ==
    \/ /\ Orientation(p1, q1, p2) # Orientation(p1, q1, q2)
       /\ Orientation(p2, q2, p1) # Orientation(p2, q2, q1)
    \/ OnSegment(p1, q1, p2) \/ OnSegment(p1, q1, q2)
    \/ OnSegment(p2, q2, p1) \/ OnSegment(p2, q2, q1)

Successor(points, index) == (index % Len(points)) + 1

\* a simple polygon: three or more distinct vertices, edges that follow each
\* other meet in their common vertex only, other edges do not meet
IsSimple(points) ==
    /\ Len(points) >= 3
    /\ \A index1, index2 \in 1..Len(points) :
           index1 < index2 =>
               /\ points[index1] # points[index2]
               /\ IF Successor(points, index1) = index2
                  THEN ~OnSegment(points[index1], points[index2],
                                  points[Successor(points, index2)])
                       /\ ~OnSegment(points[index2], points[Successor(points, index2)],
                                     points[index1])
                  ELSE IF Successor(points, index2) = index1
                  THEN ~OnSegment(points[index2], points[index1],
                                  points[Successor(points, index1)])
                       /\ ~OnSegment(points[index1], points[Successor(points, index1)],
                                     points[index2])
                  ELSE ~SegmentsMeet(points[index1], points[Successor(points, index1)],
                                     points[index2], points[Successor(points, index2)])

OnBoundary(points, point) ==
    \E index \in 1..Len(points) :
        OnSegment(points[index], points[Successor(points, index)], point)

\* C10: for a simple polygon and a query point (here: one off its boundary),
\* is_inside under "nonzero" and under "evenodd" give the same answer
C10_RulesAgree ==
    IsSimple(shape) =>
        \A point \in QueryPoints :
            OnBoundary(shape, point) \/ Polygon_is_inside(shape, point, "nonzero").value
                = Polygon_is_inside(shape, point, "evenodd").value

\* the turn at the vertex after points[index]
Turn(points, index) ==
    Orientation(points[index], points[Successor(points, index)],
                points[Successor(points, Successor(points, index))])

\* a convex polygon: simple, and turning the same way at every vertex
IsConvex(points) ==
    /\ IsSimple(points)
    /\ \E way \in { -1, 1 } : \A index \in 1..Len(points) : Turn(points, index) = way

\* the offsets c of the query lines x = c and y = c
LineOffsets == { 2, 3, 4 }

\* the line x = c passes through the interior of a convex polygon exactly
\* when c lies strictly between the least and the greatest x of its vertices
ThroughInteriorX(points, offset) ==
    /\ \E index \in 1..Len(points) : RLt(points[index].x, R(offset))
    /\ \E index \in 1..Len(points) : RGt(points[index].x, R(offset))

ThroughInteriorY(points, offset) ==
    /\ \E index \in 1..Len(points) : RLt(points[index].y, R(offset))
    /\ \E index \in 1..Len(points) : RGt(points[index].y, R(offset))

\* C11: for a convex polygon, find_intersections with a vertical or a
\* horizontal line through its interior returns exactly 2 points
C11_TwoIntersections ==
    IsConvex(shape) =>
        \A offset \in LineOffsets :
            /\ ThroughInteriorX(shape, offset) =>
                   Len(Polygon_find_intersections(
                           shape, [a |-> R(1), b |-> R(0), c |-> R(-offset)])) = 2
            /\ ThroughInteriorY(shape, offset) =>
                   Len(Polygon_find_intersections(
                           shape, [a |-> R(0), b |-> R(1), c |-> R(-offset)])) = 2

CrossProperly(p1, q1, p2, q2) ==
    /\ Orientation(p1, q1, p2) * Orientation(p1, q1, q2) < 0
    /\ Orientation(p2, q2, p1) * Orientation(p2, q2, q1) < 0

\* a bowtie: a quadrilateral with two opposite sides that cross
IsBowtie(points) ==
    /\ Len(points) = 4
    /\ \/ CrossProperly(points[1], points[2], points[3], points[4])
       \/ CrossProperly(points[2], points[3], points[4], points[1])

\* the midpoint test of the Fill transcriber, under the given rule
PairInsideUnder(points, intersections, index, rule) ==
    Polygon_is_inside(points,
                      Point_from_cartesian(
                          RDiv(RAdd(intersections[index + 1].x, intersections[index + 2].x), R(2)),
                          RDiv(RAdd(intersections[index + 1].y, intersections[index + 2].y), R(2))),
                      rule).value

ActiveIntervalsOf(points, intersections, rule) ==
    Cardinality({index \in 0..(Len(intersections) - 2) :
                     PairInsideUnder(points, intersections, index, rule)})

ActiveIntervals(points, time_stamp, rule) ==
    ActiveIntervalsOf(points, sweep_intersections(points, R(time_stamp)), rule)

AllDistinct(seq) ==
    \A index1, index2 \in 1..Len(seq) : index1 # index2 => seq[index1] # seq[index2]

\* the sweep line meets the boundary in two or more distinct points, none of
\* them a vertex: it runs through a lobe and not through the crossing point
ThroughLobe(points, intersections) ==
    /\ Len(intersections) >= 2
    /\ AllDistinct(intersections)
    /\ \A index \in 1..Len(points) : \A hit \in 1..Len(intersections) :
           points[index].x # intersections[hit].x

\* the time samples whose sweep line runs inside a lobe
LobeSamples(points) ==
    {time_stamp \in TimeSamples :
         ThroughLobe(points, sweep_intersections(points, R(time_stamp)))}

Count(seq, entry) == Cardinality({index \in 1..Len(seq) : seq[index] = entry})

SameMultiset(seq1, seq2) ==
    /\ Len(seq1) = Len(seq2)
    /\ \A index \in 1..Len(seq1) : Count(seq1, seq1[index]) = Count(seq2, seq1[index])

\* what C14 asks of the polygon read back from the link of the polygon before
RoundTrip(before, after) ==
    /\ SameMultiset(serialize_points(before), serialize_points(after))
    /\ Sorted(after)

\* C14: opening the link made by serialize() gives a polygon with the same
\* multiset of (angle, radius, origin) entries as the polygon serialized, in
\* ascending angle order; so does deserialize on the link of any polygon,
\* whatever the order of its points
C14_RoundTrip ==
    /\ [](\A points \in LinkPolygons :
              RoundTrip(points, Director_deserialize(shape, Director_serialize(points)).points))
    /\ [][last_call'.op = "share" => RoundTrip(shape, shape')]_vars

\* a link was opened whose polygon has a point at the origin, a point of the
\* same angle further out and a point of a greater angle
C14_Witness ==
    /\ last_call = Call("share", "done")
    /\ shape = << Pt(3, 3), Pt(5, 3), Pt(1, 1) >>

\* C15: deserialize rejects every malformed text with the error of atob or of
\* JSON.parse, and a deserialize call that ends with an error leaves the
\* polygon as it was
C15_MalformedRejected ==
    /\ [](\A data \in MalformedHashes :
              Director_deserialize(shape, data).error \in { "InvalidCharacterError", "SyntaxError" })
    /\ [][(last_call'.op = "deserialize" /\ last_call'.outcome # "done") =>
              shape' = shape]_vars

\* a polygon of two points after a text that is not JSON was handed in
C15_Witness ==
    /\ last_call = Call("deserialize", "SyntaxError")
    /\ Len(shape) = 2

\* C16: a read of current_time ends with the error when rendering is false
\* and gives the audio clock minus the recorded start when rendering is true;
\* the recorded start changes in a render() only, to the audio clock of then
C16_ElapsedTime ==
    /\ [][(last_call'.op = "current_time" /\ last_call' # last_call) =>
              IF rendering
              THEN last_call'.outcome = ToString(currentTime - rendering_start)
              ELSE last_call'.outcome = "error"]_vars
    /\ [][rendering_start' # rendering_start =>
              (last_call' = Call("render", "done") /\ rendering_start' = currentTime)]_vars

\* the time read one tick into a pass
C16_Witness ==
    /\ last_call = Call("current_time", "1")
    /\ rendering /\ rendering_start = 0 /\ currentTime = 1

SupportedRules == { "evenodd", "nonzero" }

\* C17: is_inside with a rule other than "evenodd" and "nonzero" ends with an
\* error and no boolean, with the two rules it ends without one, and a call
\* that ended with the error left the polygon as it was
C17_OtherRuleRejected ==
    /\ [](\A point \in QueryPoints, rule \in FillRules :
              (Polygon_is_inside(shape, point, rule).error = "none") <=> (rule \in SupportedRules))
    /\ [][(last_call'.op = "is_inside" /\ last_call'.outcome = "error") =>
              shape' = shape]_vars

\* is_inside was refused on a triangle
C17_Witness ==
    /\ last_call = Call("is_inside", "error")
    /\ Len(shape) = 3
    /\ \E point \in QueryPoints :
           Polygon_is_inside(shape, point, "winding").error = "Not implemented"

\* the places y strictly inside the box where the sweep lines meet the polygon
SweptInsideBox(points) ==
    UNION { { hit.y : hit \in Range(sweep_intersections(points, R(time_stamp))) } :
            time_stamp \in TimeSamples }
    \ { R(settings.box.y), R(settings.box.y + settings.box.height) }

BoxRatio(y) == RDiv(RSub(y, R(settings.box.y)), R(settings.box.height))

InsidePairs(points, intersections) ==
    {index \in 0..(Len(intersections) - 2) : Fill_pair_inside(points, intersections, index)}

\* the place-th smallest member of a set of numbers, place = 1, 2, ...
NthSmallest(S, place) ==
    CHOOSE x \in S : Cardinality({y \in S : y < x}) = place - 1

\* sorted from the greatest y to the least
DescendingY(intersections) ==
    \A index \in 1..(Len(intersections) - 1) :
        RGe(intersections[index].y, intersections[index + 1].y)

\* what C19 asks of the entries of one time sample, given its intersections
\* and its inside pairs
SampleAsWalked(st, sample, intersections, inside) ==
    /\ DescendingY(intersections)
    /\ Cardinality(inside) <= st.filters
    /\ \A voice \in 1..st.filters :
           IF voice <= Cardinality(inside)
           THEN /\ st.activated[voice][sample] = TRUE
                /\ st.lower_frequencies[voice][sample]
                       = Director_normalize_linear(intersections[NthSmallest(inside, voice) + 1].y)
                /\ st.upper_frequencies[voice][sample]
                       = Director_normalize_linear(intersections[NthSmallest(inside, voice) + 2].y)
           ELSE /\ st.activated[voice][sample] = FALSE
                /\ st.lower_frequencies[voice][sample] = Num(-1)
                /\ st.upper_frequencies[voice][sample] = Num(-1)

SampleWalked(points, st, sample, intersections) ==
    SampleAsWalked(st, sample, intersections, InsidePairs(points, intersections))

\* the loop over the time samples left, fill_gaps not yet run
SweepOver == transcription.pc = "sweep" /\ transcription.time_stamp > settings.rate

\* C19: when the Fill transcriber has walked all time samples, at every
\* sample the intersections are in descending y, the voices 1..m are active
\* and carry the m inside pairs (of all adjacent pairs) in that order, and
\* every other voice of the bank has the inactive entry (-1, -1, false)
C19_PairsWalked ==
    (Filling /\ SweepOver) =>
        \A sample \in 1..transcription.st.counter :
            SampleWalked(shape, transcription.st, sample,
                         sweep_intersections(shape, R((sample - 1) * TimeStep)))

\* a sweep with a sample of three intersections, one of two bands and one of
\* one band
C19_Witness ==
    /\ Filling /\ SweepOver
    /\ transcription.st.filters = 2
    /\ \E time_stamp \in TimeSamples : ActiveBands(shape, time_stamp) = 2
    /\ \E time_stamp \in TimeSamples : ActiveBands(shape, time_stamp) = 1
    /\ \E time_stamp \in TimeSamples :
           Len(sweep_intersections(shape, R(time_stamp))) = 3

Min(S) == CHOOSE x \in S : \A y \in S : x <= y

\* the samples at which the voice with the given activated row is active
ActiveSamples(activated_row) ==
    {sample \in 1..Len(activated_row) : activated_row[sample]}

\* the sample whose value an entry carries after the pass: itself when
\* active, else the nearest later active sample, else the last active sample
CarriedSample(active, sample) ==
    IF sample \in active THEN sample
    ELSE IF {later \in active : later > sample} # { }
         THEN Min({later \in active : later > sample})
         ELSE Max(active)

\* what C20 asks of one row of a frequency curve, before and after the pass
RowGapsFilled(before, after, active) ==
    /\ Len(after) = Len(before)
    /\ active # { }
    /\ \A sample \in 1..Len(before) :
           /\ after[sample] = before[CarriedSample(active, sample)]
           /\ after[sample] # Num(-1)
           /\ after[sample] # Num(0)

ArrayGapsFilled(before, after, activated) ==
    /\ Len(after) = Len(before)
    /\ \A voice \in 1..Len(before) :
           RowGapsFilled(before[voice], after[voice], ActiveSamples(activated[voice]))

\* C20: the step that runs fill_gaps (Fill and Outline) leaves the activated
\* curves as they were and, in every frequency curve, the entries of active
\* samples; every inactive sample gets the value of the nearest later active
\* sample of its voice or, without one, of the last active sample; no entry
\* is -1 or 0 afterwards
C20_GapsFilled ==
    [][(SweepOver /\ transcription'.pc = "done") =>
           /\ transcription'.st.activated = transcription.st.activated
           /\ \A kind \in 1..Len(FrequencyArrays(transcription.st)) :
                  ArrayGapsFilled(FrequencyArrays(transcription.st)[kind],
                                  FrequencyArrays(transcription'.st)[kind],
                                  transcription.st.activated)]_vars

\* after the pass: a voice that was inactive, then active with two different
\* values, then inactive
C20_Witness ==
    /\ transcription.pc = "done"
    /\ \E voice \in 1..Len(transcription.st.activated) :
           \E first, second, third, fourth \in 1..Len(transcription.st.activated[voice]) :
               /\ first < second /\ second < third /\ third < fourth
               /\ ~transcription.st.activated[voice][first]
               /\ transcription.st.activated[voice][second]
               /\ transcription.st.activated[voice][third]
               /\ ~transcription.st.activated[voice][fourth]
               /\ FrequencyArrays(transcription.st)[1][voice][second]
                      # FrequencyArrays(transcription.st)[1][voice][third]
               /\ FrequencyArrays(transcription.st)[1][voice][first]
                      = FrequencyArrays(transcription.st)[1][voice][second]
               /\ FrequencyArrays(transcription.st)[1][voice][fourth]
                      = FrequencyArrays(transcription.st)[1][voice][third]

\* what C21 asks of the entries of one time sample, given its intersections
SampleTraced(st, sample, intersections) ==
    /\ DescendingY(intersections)
    /\ Len(intersections) <= st.oscilators
    /\ \A voice \in 1..st.oscilators :
           IF voice <= Len(intersections)
           THEN /\ st.activated[voice][sample] = TRUE
                /\ st.frequencies[voice][sample]
                       = Director_normalize_linear(intersections[voice].y)
           ELSE /\ st.activated[voice][sample] = FALSE
                /\ st.frequencies[voice][sample] = Num(-1)

\* n of a time sample, and the greatest n of a sweep
Crossings(points, time_stamp) == Len(sweep_intersections(points, R(time_stamp)))

MaxCrossings(points) ==
    Max({0} \cup {Crossings(points, time_stamp) : time_stamp \in TimeSamples})

\* the entries of all samples at the end of the loop, the bank at the end
OutlineTraced ==
    /\ (~Filling /\ SweepOver) =>
           \A sample \in 1..transcription.st.counter :
               SampleTraced(transcription.st, sample,
                            sweep_intersections(shape, R((sample - 1) * TimeStep)))
    /\ (~Filling /\ transcription.pc = "done") =>
           /\ Len(voices) = MaxCrossings(shape)
           /\ transcription.st.oscilators = Len(voices)

\* C21: when the Outline transcriber has walked all time samples, at every
\* sample with n intersections the oscilators 1..n are active and carry
\* normalize_linear of the intersections in descending y, every other
\* oscilator of the bank has the inactive entry (-1, false), and the bank
\* holds as many oscilators as the greatest n of the sweep
C21_OutlineTraced == []OutlineTraced

\* an Outline sweep that ended with three oscilators, with a sample of two
\* intersections and a sample of three
C21_Witness ==
    /\ ~Filling /\ transcription.pc = "done"
    /\ Len(voices) = 3
    /\ \E time_stamp \in TimeSamples : Crossings(shape, time_stamp) = 2
    /\ \E time_stamp \in TimeSamples : Crossings(shape, time_stamp) = 3

\* the bank holds voices of the most recent pass only, and the voices
\* connected to the master bus are those of the bank
BankOfLastPass ==
    /\ \A index \in 1..Len(voices) : voices[index] = Voice(passes, index)
    /\ connected = Range(voices)

\* a render step: a pass is started and run to completion
RenderStep == passes' = passes + 1 /\ last_call' = Call("render", "done")

\* C22: after any sequence of render passes and mouse edits the bank holds
\* exactly the voices made in the most recent pass, as many as the polygon of
\* that pass asks for whatever the bank held before, and the voices connected
\* to the master bus are exactly those of the bank
C22_BankRebuilt ==
    /\ []BankOfLastPass
    /\ [][RenderStep =>
              Len(voices') = TranscribedBank(shape, audio_processor_type)]_vars

\* a second pass over an edited polygon, with a bank that is not empty
C22_Witness ==
    /\ passes = 2
    /\ Len(shape) = MaxAnchors
    /\ Len(voices) >= 2
    /\ BankOfLastPass

\* the query lines a x + b y + c = 0: vertical and horizontal ones (some along
\* an edge, some through a vertex), a slanted one, and one with a = b = 0
Line(a, b, c) == [a |-> R(a), b |-> R(b), c |-> R(c)]

QueryLines ==
    { Line(1, 0, -5), Line(0, 1, -1), Line(0, 1, -3), Line(1, 1, -6), Line(0, 0, 1) }

\* a1 b2 - a2 b1 of a query line and the line through the edge from p to q;
\* 0 when they are parallel, when they coincide, when the edge has no length
\* and when the query line has a = b = 0
Determinant(line, p, q) ==
    RSub(RMul(line.a, RSub(p.x, q.x)), RMul(RSub(q.y, p.y), line.b))

\* the point where the query line meets the line a2 x + b2 y + c2 = 0, by
\* Cramer's rule in ordinary arithmetic (the determinant det is not 0)
Cramer(line, a2, b2, c2, det) ==
    [x |-> Rat(RSub(RMul(line.b, c2), RMul(b2, line.c)).n * det.d,
               RSub(RMul(line.b, c2), RMul(b2, line.c)).d * det.n),
     y |-> Rat(RSub(RMul(a2, line.c), RMul(line.a, c2)).n * det.d,
               RSub(RMul(a2, line.c), RMul(line.a, c2)).d * det.n)]

Meeting(line, p, q) ==
    Cramer(line, RSub(q.y, p.y), RSub(p.x, q.x),
           RNeg(RAdd(RMul(RSub(q.y, p.y), p.x), RMul(RSub(p.x, q.x), p.y))),
           Determinant(line, p, q))

\* the meeting point when it is within the closed x-span of the edge
WithinSpan(meeting, p, q) ==
    IF RLe(RMin(p.x, q.x), meeting.x) /\ RLe(meeting.x, RMax(p.x, q.x))
    THEN << meeting >>
    ELSE << >>

\* what C23 lets the edge from p to q add to the result
Contribution(line, p, q) ==
    IF Determinant(line, p, q).n = 0 THEN << >>
    ELSE WithinSpan(Meeting(line, p, q), p, q)

RECURSIVE Contributions(_, _, _)
Contributions(points, line, index) ==
    IF index > Len(points) THEN << >>
    ELSE Contribution(line, points[index], points[Successor(points, index)])
         \o Contributions(points, line, index + 1)

AsContributed(found, points, line) ==
    /\ found = Contributions(points, line, 1)
    /\ \A hit \in Range(found) : hit.x.d # 0 /\ hit.y.d # 0

FiniteIntersections(points, line) ==
    AsContributed(Polygon_find_intersections(points, line), points, line)

AllFiniteIntersections == \A line \in QueryLines : FiniteIntersections(shape, line)

\* C23: for every polygon (also of 0, 1 or 2 points, with points that
\* coincide) and every query line, find_weighted_intersections returns, in
\* edge order, one point for each edge that is not parallel to the line and
\* is met within its closed x-span, nothing for the other edges, and no
\* coordinate that is not finite
C23_FiniteIntersections == []AllFiniteIntersections

\* a polygon with an edge of no length, an edge along the line y = 1 and an
\* edge that the line y = 1 meets in its end
C23_Witness ==
    /\ shape = << Pt(5, 1), Pt(5, 1), Pt(3, 3), Pt(1, 1) >>
    /\ Len(Polygon_find_intersections(shape, Line(0, 1, -1))) = 2
    /\ AllFiniteIntersections

\* ---------------------------------------------------------------------------
\* C24: in every interleaving of mouse events, render() calls and timer
\* firings, no step taken while rendering is true changes the polygon or the
\* selected anchor; a reset timer is pending only while rendering is true and
\* the render step itself leaves the polygon alone, so the polygon is the same
\* when a render starts and when its reset timer fires.
FrozenWhileRendering == rendering => UNCHANGED << shape, selected_anchor >>

TimerFires == rendering /\ last_call' = Call("timeout", "done")

C24_PolygonFrozenWhileRendering ==
    /\ [](timers # << >> => rendering)
    /\ [][FrozenWhileRendering]_vars
    /\ [][RenderStep => shape' = shape]_vars
    /\ [][TimerFires => (shape' = shape /\ timers # << >>)]_vars

C24_Witness ==
    /\ rendering
    /\ timers # << >>
    /\ last_call = Call("mouse_move", "ignored")
    /\ Len(shape) = MaxAnchors
    /\ selected_anchor # -1

\* ---------------------------------------------------------------------------
\* LHPassFilter.automate_frequency: the curve set on every low-pass stage and
\* the curve set on every high-pass stage of one voice
LHPassFilter_automate_frequency(low_pass, high_pass) ==
    [low_pass |-> low_pass, high_pass |-> high_pass]

\* the curves of a voice handed over with the lower one first
Fill_automation_crossed(st, index) ==
    LHPassFilter_automate_frequency(st.lower_frequencies[index], st.upper_frequencies[index])

\* FillAudioProcessor.render: the curves handed to voice index
Fill_automation(st, index) ==
    LHPassFilter_automate_frequency(st.upper_frequencies[index], st.lower_frequencies[index])

PlainNumber(value) == value.hi = R(0) /\ value.lo = R(0)

\* high^(1 - r) * low^r, a value of normalize_linear
OnScale(value) == value.k = R(1) /\ RAdd(value.hi, value.lo) = R(1)

\* a <= b as numbers.  Values of normalize_linear are high * (low / high)^lo
\* and low < high, so among them the one with the larger lo is the smaller;
\* they are positive, so a plain number that is not positive is below them.
FrequencyLe(a, b) ==
    IF PlainNumber(a) /\ PlainNumber(b) THEN RLe(a.k, b.k)
    ELSE IF OnScale(a) /\ OnScale(b) THEN RGe(a.lo, b.lo)
    ELSE IF PlainNumber(a) /\ OnScale(b) THEN RLe(a.k, R(0))
    ELSE FALSE

BandNotInverted(curves) ==
    /\ Len(curves.low_pass) = Len(curves.high_pass)
    /\ \A sample \in 1..Len(curves.low_pass) :
           FrequencyLe(curves.high_pass[sample], curves.low_pass[sample])

\* C25: for every Fill voice and every time sample, active or gap-filled, the
\* cutoff curve render hands to the low-pass stages is greater than or equal
\* to the one it hands to the high-pass stages
C25_BandNotInverted ==
    (Filling /\ transcription.pc = "done") =>
        /\ settings.frequency_range.low < settings.frequency_range.high
        /\ \A index \in 1..Len(voices) :
               BandNotInverted(Fill_automation(transcription.st, index))

C25_Witness ==
    /\ Filling
    /\ transcription.pc = "done"
    /\ \E index \in 1..Len(voices) :
           LET curves == Fill_automation(transcription.st, index)
           IN  /\ \E sample \in 1..Len(curves.low_pass) :
                      /\ transcription.st.activated[index][sample]
                      /\ ~FrequencyLe(curves.low_pass[sample], curves.high_pass[sample])
               /\ \E sample \in 1..Len(curves.low_pass) :
                      /\ ~transcription.st.activated[index][sample]
                      /\ ~FrequencyLe(curves.low_pass[sample], curves.high_pass[sample])
    /\ C25_BandNotInverted

\* ---------------------------------------------------------------------------
\* C26: with renders started through Director.render() only, at most one
\* reset timer is pending, rendering is true exactly when one is pending, and
\* the pending timer is that of the latest render; no timer of an earlier
\* render is left to lower the flag during a later one.
C26_OneTimerPending ==
    /\ Len(timers) <= 1
    /\ rendering <=> timers # << >>
    /\ timers # << >> => timers = << passes >>

C26_Witness ==
    /\ passes = 2
    /\ rendering
    /\ timers = << 2 >>
    /\ last_call = Call("render", "ignored")

\* ---------------------------------------------------------------------------
\* the lines is_inside asks about: x = c ("evenodd") and y = c ("nonzero")
VerticalLines == { Line(1, 0, -c) : c \in 0..6 }

HorizontalLines == { Line(0, 1, -c) : c \in 0..6 }

\* p is a point of the segment from point1 to point2 as far as its spans go
WithinSpans(p, point1, point2) ==
    /\ RGe(p.x, RMin(point1.x, point2.x))
    /\ RLe(p.x, RMax(point1.x, point2.x))
    /\ RGe(p.y, RMin(point1.y, point2.y))
    /\ RLe(p.y, RMax(point1.y, point2.y))

\* every intersection edge index contributes lies within both spans of the edge
EdgeIntersectionsOnEdge(points, line, index) ==
    \A found \in Range(edge_intersection(points, line, index)) :
        WithinSpans(found.point, points[index + 1], points[((index + 1) % Len(points)) + 1])

IntersectionsOnEdges(points, lines) ==
    \A line \in lines : \A index \in 0..(Len(points) - 1) :
        EdgeIntersectionsOnEdge(points, line, index)

\* C27: every intersection returned by find_weighted_intersections is a point
\* of the edge it comes from, its x within the x-span and its y within the
\* y-span of the edge, for horizontal query lines as for vertical ones
C27_IntersectionsOnEdge ==
    IntersectionsOnEdges(shape, VerticalLines \cup HorizontalLines)

\* ---------------------------------------------------------------------------
SelectionValid == selected_anchor = -1 \/ selected_anchor \in 0..(Len(shape) - 1)

MouseStep == last_call'.op \in { "mouse_down", "mouse_move", "mouse_up" }

\* C28: in every state reached through mouse events, render() calls and timer
\* firings the selected anchor is -1 or an index of the polygon's points, and
\* no replace or delete issued by a mouse handler raises the out-of-bounds
\* error.
C28_SelectionValid ==
    /\ []SelectionValid
    /\ [][MouseStep => last_call'.outcome # "error"]_vars

C28_Witness ==
    /\ Len(shape) = MaxAnchors
    /\ selected_anchor = Len(shape) - 1
    /\ last_call = Call("mouse_move", "done")
    /\ passes >= 1

\* ---------------------------------------------------------------------------
\* a mouse_up event has been delivered to Director.mouse_up_handler
MouseUpDelivered == last_call'.op = "mouse_up"

\* C29: in every interleaving of mouse events, render() calls and timer
\* firings, after a mouse_up event has been delivered to
\* Director.mouse_up_handler the selected anchor is -1.
C29_MouseUpEndsDrag == [][MouseUpDelivered => selected_anchor' = -1]_vars

\* ---------------------------------------------------------------------------
UpdateStep == last_call'.op = "update" /\ last_call' # last_call

\* the elapsed time has been read: the caret drawn, the spectrum's time stored
ElapsedTimeRead == last_call'.outcome \in { "progress", "error" } \/ last_update' # last_update

\* C30: Director.update never raises the 'not rendering' error; in every
\* interleaving of redraw callbacks, render() calls and timer firings the
\* elapsed render time is read only in a run of update in which rendering is
\* true from its start to its end, and what is read is the audio clock minus
\* the start of the render.
C30_UpdateNeverRaises ==
    /\ [][UpdateStep => last_call'.outcome # "error"]_vars
    /\ [][(UpdateStep /\ ElapsedTimeRead) =>
              /\ rendering /\ rendering'
              /\ last_update' = currentTime - rendering_start]_vars
    /\ [][last_update' # last_update => last_call'.op = "update"]_vars

C30_Witness ==
    /\ last_call = Call("update", "progress")
    /\ rendering
    /\ passes = 2
    /\ last_update = 0
    /\ currentTime = 1

=============================================================================
